---- MODULE Spec2Model ----
(***************************************************************************)
(* Model of homeassistant/components/stream/core.py: IdleTimer and         *)
(* StreamOutput (segment window, wake event, cursor, idle alarm), driven   *)
(* by producers that hand segments to the event loop, by readers that call *)
(* recv, and by callers of get_segment and cleanup.                        *)
(***************************************************************************)
EXTENDS Integers, Sequences, FiniteSets, TLC

\* ---------------------------------------------------------------- bounds
\* Sequence numbers the producer hands to put: 0 .. MaxSeq.
MaxSeq == 3
\* Put handoffs that may sit in the loop's ready queue at once.
MaxQueue == 2
\* The IdleTimer's timeout, in clock ticks.
Timeout == 2

\* ------------------------------------------------------ program constants
\* const.MAX_SEGMENTS, the deque's maxlen.
MAX_SEGMENTS == 3

\* Python's None, for the cursor, the timer handle and absent results.
None == -1

\* Two readers share the output and its single cursor, so that one reader's
\* recv can move the cursor under the other.
Readers == {1, 2}
SeqNums == 0 .. MaxSeq

VARIABLES
    segments,   \* StreamOutput._segments: the deque, oldest first
    cursor,     \* StreamOutput._cursor
    event,      \* StreamOutput._event: the asyncio.Event's flag
    waiters,    \* StreamOutput._event: readers whose wait() future is pending
    pc,         \* each reader's position in recv
    ready,      \* the event loop's ready queue: put handoffs and reader wakeups
    idle,       \* IdleTimer.idle
    unsub,      \* IdleTimer._unsub: None or the handle of the last alarm scheduled
    alarms,     \* the scheduler: pending (not cancelled, not fired) alarms -> ticks left
    fires,      \* invocations of IdleTimer._callback since an alarm was last scheduled
    sinceArm,   \* ticks since an alarm was last scheduled (saturates at Timeout)
    nextSeq,    \* the producer's next sequence number
    appended,   \* history: sequence numbers appended to the window, in order
    lastRet,    \* history: per reader, the sequence of the last segment recv returned
    torn,       \* history: cleanup has run
    last        \* history: the most recent operation and what it returned

vars == <<segments, cursor, event, waiters, pc, ready, idle, unsub, alarms, fires,
          sinceArm, nextSeq, appended, lastRet, torn, last>>

\* ------------------------------------------------------------- data model
\* A segment's duration in tenths of a second; the payload is opaque.
DurationOf(n) == CASE n = 0 -> 4 [] n = 1 -> 25 [] n = 2 -> 15 [] n = 3 -> 34
                   [] n = 4 -> 5 [] OTHER -> 21

Segment(n) == [sequence |-> n, duration |-> DurationOf(n)]

NoSegment == [sequence |-> None, duration |-> 0]

\* What an operation returned: a segment, the whole window, or None.
ResSegment(s) == [kind |-> "segment", seg |-> s]
ResWindow == [kind |-> "window", seg |-> NoSegment]
ResNone == [kind |-> "none", seg |-> NoSegment]

\* An operation just run: its name, caller (reader), argument and return value;
\* for recv also the last segment that reader had been given before (prev) and
\* what released its wait (by); for _async_put, whether the timer was idle
\* when it ran; for cleanup, whether the operation just before it was cleanup too.
Op(name, r, arg, res, prev, by) ==
    [op |-> name, r |-> r, arg |-> arg, res |-> res, prev |-> prev, by |-> by]

Min(a, b) == IF a < b THEN a ELSE b

MaxOf(S, default) == IF S = {} THEN default ELSE CHOOSE x \in S : \A y \in S : y <= x

\* StreamOutput.segments: the retained sequence numbers, oldest first.
Sequences(win) == [i \in 1 .. Len(win) |-> win[i].sequence]

\* A deque filled from the wrong end: appendleft, dropping from the right.
DequeAppendLeft(win, seg) ==
    <<seg>> \o (IF Len(win) >= MAX_SEGMENTS THEN SubSeq(win, 1, MAX_SEGMENTS - 1) ELSE win)

\* A deque without maxlen: nothing is ever dropped.
DequeAppendUnbounded(win, seg) == Append(win, seg)

\* deque(maxlen=MAX_SEGMENTS).append: a full deque drops its oldest element.
DequeAppend(win, seg) ==
    IF Len(win) >= MAX_SEGMENTS
    THEN Append(SubSeq(win, Len(win) - MAX_SEGMENTS + 2, Len(win)), seg)
    ELSE Append(win, seg)

\* ------------------------------------------------------------- IdleTimer
\* The timer's fields and the scheduler's pending alarms, as one value.
Timer == [idle |-> idle, unsub |-> unsub, alarms |-> alarms, fires |-> fires,
          sinceArm |-> sinceArm]

\* A handle distinct from every pending alarm (the caller overwrites _unsub
\* with it, so the handle held before is no longer referenced).
FreshHandle(t) ==
    CHOOSE h \in 1 .. (Cardinality(DOMAIN t.alarms) + 1) :
        /\ h \notin DOMAIN t.alarms
        /\ \A g \in 1 .. (h - 1) : g \in DOMAIN t.alarms

\* async_call_later(hass, timeout, self.fire), its handle stored in _unsub.
AsyncCallLater(t) ==
    LET h == FreshHandle(t) IN
    [t EXCEPT !.unsub = h,
              !.alarms = [g \in DOMAIN t.alarms \cup {h} |->
                             IF g = h THEN Timeout ELSE t.alarms[g]],
              !.fires = 0,
              !.sinceArm = 0]

\* Calling the handle: cancels its alarm if still pending; harmless otherwise.
Cancel(t, h) == [t EXCEPT !.alarms = [g \in DOMAIN t.alarms \ {h} |-> t.alarms[g]]]

\* A start() that schedules without looking at the handle it holds.
TimerStartAlways(t) == AsyncCallLater([t EXCEPT !.idle = FALSE])

\* A start that re-arms on every call, as awake does.
TimerStartRearms(t) ==
    LET t1 == [t EXCEPT !.idle = FALSE] IN
    AsyncCallLater(IF t1.unsub # None THEN Cancel(t1, t1.unsub) ELSE t1)

\* IdleTimer.start
TimerStart(t) ==
    LET t1 == [t EXCEPT !.idle = FALSE] IN
    IF t1.unsub = None THEN AsyncCallLater(t1) ELSE t1

\* A clear that never calls the handle.
TimerClearNoCancel(t) == t

\* IdleTimer.clear: the handle is called but stays in _unsub.
TimerClear(t) == IF t.unsub # None THEN Cancel(t, t.unsub) ELSE t

\* An awake() that schedules the new alarm without cancelling the old one.
TimerAwakeNoClear(t) == AsyncCallLater([t EXCEPT !.idle = FALSE])

\* IdleTimer.awake
TimerAwake(t) == AsyncCallLater(TimerClear([t EXCEPT !.idle = FALSE]))

\* A fire that keeps the spent handle in _unsub.
TimerFireKeepsHandle(t, h) ==
    [Cancel(t, h) EXCEPT !.idle = TRUE, !.fires = t.fires + 1]

\* IdleTimer.fire, run by the scheduler for the due alarm h.
TimerFire(t, h) ==
    [Cancel(t, h) EXCEPT !.idle = TRUE, !.unsub = None, !.fires = t.fires + 1]

SetTimer(t) ==
    /\ idle' = t.idle
    /\ unsub' = t.unsub
    /\ alarms' = t.alarms
    /\ fires' = t.fires
    /\ sinceArm' = t.sinceArm

\* --------------------------------------------------------- asyncio.Event
\* Event.set wakes every pending waiter, in waiting order: each waiter's task
\* is queued on the loop and resumes when the loop reaches it.
\* A set() that releases only the waiter at the front.
ReleasedFirstOnly(w) == SubSeq(w, 1, Min(Len(w), 1))

\* The waiters Event.set releases, given the pending waiters w: all of them.
Released(w) == w

\* The waiters Event.set leaves suspended.
StillWaiting(w) == SubSeq(w, Len(Released(w)) + 1, Len(w))

\* The released readers' wakeups, as queued on the loop.
WakeItems(by) ==
    [i \in 1 .. Len(Released(waiters)) |->
        [kind |-> "wake", r |-> Released(waiters)[i], seq |-> None, by |-> by]]

Woken == {Released(waiters)[i] : i \in 1 .. Len(Released(waiters))}

\* loop.call_soon_threadsafe(self._async_put, segment)
PutItem(n) == [kind |-> "put", r |-> 0, seq |-> n, by |-> "none"]

QueuedPuts == {i \in 1 .. Len(ready) : ready[i].kind = "put"}

\* A handoff that jumps the queue.
EnqueueFront(q, item) == <<item>> \o q

\* call_soon_threadsafe: the callback goes to the back of the ready queue.
Enqueue(q, item) == Append(q, item)

\* An _async_put that forgets self._event.clear().
EventAfterPutLeftSet == TRUE

\* The event's flag after self._event.set(); self._event.clear().
EventAfterPut == FALSE

\* Python's round() of a duration given in tenths: to the nearest integer, a
\* half going to the even neighbour.
PyRound(d) ==
    LET q == d \div 10
        rem == d % 10
    IN  IF rem < 5 THEN q
        ELSE IF rem > 5 THEN q + 1
        ELSE IF q % 2 = 0 THEN q ELSE q + 1

\* A target_duration without the `or 1`.
TargetDurationNoFloor(win) ==
    IF Len(win) = 0 THEN 1
    ELSE PyRound(MaxOf({win[i].duration : i \in 1 .. Len(win)}, 0))

\* target_duration: 1 for an empty window, else round(max(durations)) or 1.
TargetDuration(win) ==
    LET segment_length == Len(win) IN
    IF segment_length = 0 THEN 1
    ELSE LET durations == {win[i].duration : i \in 1 .. Len(win)}
             rounded == PyRound(MaxOf(durations, 0))
         IN  IF rounded = 0 THEN 1 ELSE rounded

\* ---------------------------------------------------------- StreamOutput
\* StreamOutput.get_segment's return value.
GetSegmentResult(win, sequence) ==
    IF sequence = None \/ sequence = 0
    THEN ResWindow
    ELSE IF \E i \in 1 .. Len(win) : win[i].sequence = sequence
         THEN ResSegment(win[CHOOSE i \in 1 .. Len(win) :
                                  /\ win[i].sequence = sequence
                                  /\ \A j \in 1 .. (i - 1) : win[j].sequence # sequence])
         ELSE ResNone

\* A wait condition that only holds back a reader that has no cursor yet.
RecvMustWaitUnsetOnly(win, cur) == cur = None

\* recv's wait condition (the lines before the await).
RecvMustWait(win, cur) ==
    LET last_segment == MaxOf({win[i].sequence : i \in 1 .. Len(win)}, 0) IN
    cur = None \/ cur <= last_segment

\* A recv that hands out the oldest segment of the window instead of the newest.
RecvFinishOldest(r, by) ==
    IF segments = <<>>
    THEN /\ last' = Op("recv", r, None, ResNone, lastRet[r], by)
         /\ UNCHANGED <<cursor, lastRet, idle, unsub, alarms, fires, sinceArm>>
    ELSE LET segment == segments[1] IN
         /\ SetTimer(TimerAwake(Timer))
         /\ cursor' = segment.sequence
         /\ lastRet' = [lastRet EXCEPT ![r] = segment.sequence]
         /\ last' = Op("recv", r, None, ResSegment(segment), lastRet[r], by)

\* recv after the wait: None for an empty window, else the newest segment.
RecvFinish(r, by) ==
    IF segments = <<>>
    THEN /\ last' = Op("recv", r, None, ResNone, lastRet[r], by)
         /\ UNCHANGED <<cursor, lastRet, idle, unsub, alarms, fires, sinceArm>>
    ELSE LET segment == segments[Len(segments)] IN
         /\ SetTimer(TimerAwake(Timer))
         /\ cursor' = segment.sequence
         /\ lastRet' = [lastRet EXCEPT ![r] = segment.sequence]
         /\ last' = Op("recv", r, None, ResSegment(segment), lastRet[r], by)

Init ==
    /\ segments = <<>>
    /\ cursor = None
    /\ event = FALSE
    /\ waiters = <<>>
    /\ pc = [r \in Readers |-> "idle"]
    /\ ready = <<>>
    /\ idle = FALSE
    /\ unsub = None
    /\ alarms = <<>>
    /\ fires = 0
    /\ sinceArm = Timeout
    /\ nextSeq = 0
    /\ appended = <<>>
    /\ lastRet = [r \in Readers |-> None]
    /\ torn = FALSE
    /\ last = Op("init", 0, None, ResNone, None, "none")

\* StreamOutput.put, on the producer's thread: call_soon_threadsafe.
Put ==
    /\ nextSeq <= MaxSeq
    /\ Cardinality(QueuedPuts) < MaxQueue
    /\ ready' = Enqueue(ready, PutItem(nextSeq))
    /\ nextSeq' = nextSeq + 1
    /\ UNCHANGED <<segments, cursor, event, waiters, pc, idle, unsub, alarms, fires,
                   sinceArm, appended, lastRet, torn, last>>

\* StreamOutput._async_put, when the loop reaches the handoff.
AsyncPut ==
    /\ ready # <<>>
    /\ Head(ready).kind = "put"
    /\ LET n == Head(ready).seq IN
       /\ SetTimer(TimerStart(Timer))
       /\ segments' = DequeAppend(segments, Segment(n))
       /\ appended' = Append(appended, n)
       /\ last' = Op("put", 0, n, ResNone, None, IF idle THEN "idle" ELSE "active")
    /\ ready' = Tail(ready) \o WakeItems("put")
    /\ pc' = [r \in Readers |-> IF r \in Woken THEN "woken" ELSE pc[r]]
    /\ waiters' = StillWaiting(waiters)
    /\ event' = EventAfterPut
    /\ UNCHANGED <<cursor, nextSeq, lastRet, torn>>

\* recv, from its call to its first suspension or its return.
RecvCall(r) ==
    /\ pc[r] = "idle"
    /\ IF RecvMustWait(segments, cursor) /\ ~event
       THEN /\ pc' = [pc EXCEPT ![r] = "waiting"]
            /\ waiters' = Append(waiters, r)
            /\ last' = Op("recv_wait", r, None, ResNone, lastRet[r], "none")
            /\ UNCHANGED <<cursor, lastRet, idle, unsub, alarms, fires, sinceArm>>
       ELSE /\ RecvFinish(r, "nowait")
            /\ UNCHANGED <<pc, waiters>>
    /\ UNCHANGED <<segments, event, ready, nextSeq, appended, torn>>

\* recv resumed by the loop after its wait was released.
RecvResume ==
    /\ ready # <<>>
    /\ Head(ready).kind = "wake"
    /\ LET r == Head(ready).r IN
       /\ RecvFinish(r, Head(ready).by)
       /\ pc' = [pc EXCEPT ![r] = "idle"]
    /\ ready' = Tail(ready)
    /\ UNCHANGED <<segments, event, waiters, nextSeq, appended, torn>>

\* StreamOutput.get_segment(sequence)
GetSegment(sequence) ==
    /\ SetTimer(TimerAwake(Timer))
    /\ last' = Op("get_segment", 0, sequence, GetSegmentResult(segments, sequence),
                  None, "none")
    /\ UNCHANGED <<segments, cursor, event, waiters, pc, ready, nextSeq,
                   appended, lastRet, torn>>

\* What a caller of cleanup can observe of the output.
Observable ==
    [segments |-> segments, event |-> event, timer |-> Timer, suspended |-> waiters]

\* A cleanup that wakes the readers but keeps the window.
CleanupStateKeepsWindow(s) ==
    [segments |-> s.segments, event |-> TRUE, timer |-> TimerClear(s.timer),
     suspended |-> StillWaiting(s.suspended)]

\* The state cleanup leaves, as a function of the state it is called in.
CleanupState(s) ==
    [segments |-> <<>>,
     event |-> TRUE,
     timer |-> TimerClear(s.timer),
     suspended |-> StillWaiting(s.suspended)]

\* StreamOutput.cleanup
Cleanup ==
    LET c == CleanupState(Observable) IN
    /\ event' = c.event
    /\ SetTimer(c.timer)
    /\ segments' = c.segments
    /\ ready' = ready \o WakeItems("cleanup")
    /\ pc' = [r \in Readers |-> IF r \in Woken THEN "woken" ELSE pc[r]]
    /\ waiters' = c.suspended
    /\ torn' = TRUE
    /\ last' = Op("cleanup", 0, None, ResNone, None,
                  IF last.op = "cleanup" THEN "cleanup" ELSE "other")
    /\ UNCHANGED <<cursor, nextSeq, appended, lastRet>>

\* A firing whose callback tears the stream down as cleanup() does.
FireTearsDown ==
    LET c == CleanupState(Observable) IN
    /\ \E h \in DOMAIN alarms :
           /\ alarms[h] = 0
           /\ SetTimer(TimerFire(Timer, h))
    /\ event' = c.event
    /\ segments' = c.segments
    /\ ready' = ready \o WakeItems("cleanup")
    /\ pc' = [r \in Readers |-> IF r \in Woken THEN "woken" ELSE pc[r]]
    /\ waiters' = c.suspended
    /\ last' = Op("fire", 0, None, ResNone, None, "none")
    /\ UNCHANGED <<cursor, nextSeq, appended, lastRet, torn>>

\* The scheduler runs IdleTimer.fire for an alarm whose time has come.
Fire ==
    /\ \E h \in DOMAIN alarms :
          /\ alarms[h] = 0
          /\ SetTimer(TimerFire(Timer, h))
    /\ last' = Op("fire", 0, None, ResNone, None, "none")
    /\ UNCHANGED <<segments, cursor, event, waiters, pc, ready, nextSeq,
                   appended, lastRet, torn>>

\* One tick of the clock; a due alarm fires before the clock moves on.
Tick ==
    /\ \A h \in DOMAIN alarms : alarms[h] > 0
    /\ alarms' = [h \in DOMAIN alarms |-> alarms[h] - 1]
    /\ sinceArm' = Min(sinceArm + 1, Timeout)
    /\ last' = Op("tick", 0, None, ResNone, None, "none")
    /\ UNCHANGED <<segments, cursor, event, waiters, pc, ready, idle, unsub, fires,
                   nextSeq, appended, lastRet, torn>>

Next ==
    \/ Put
    \/ AsyncPut
    \/ \E r \in Readers : RecvCall(r)
    \/ RecvResume
    \/ \E s \in SeqNums \cup {None} : GetSegment(s)
    \/ Cleanup
    \/ Fire
    \/ Tick

Spec == Init /\ [][Next]_vars

\* The event loop runs whatever is at the head of its ready queue.
LiveSpec == Spec /\ WF_vars(AsyncPut) /\ WF_vars(RecvResume)

\* ------------------------------------------------------------------ claims
\* The last n elements of a sequence.
LastN(q, n) == SubSeq(q, Len(q) - n + 1, Len(q))

\* C1 (capacity invariant): the window never holds more than MAX_SEGMENTS
\* segments, and a full window holds exactly the MAX_SEGMENTS most recently
\* appended sequence numbers, in append order.
C1_Capacity ==
    /\ Len(segments) <= MAX_SEGMENTS
    /\ Len(segments) = MAX_SEGMENTS =>
           Sequences(segments) = LastN(appended, MAX_SEGMENTS)

\* A put has just evicted the oldest segment from a full window.
C1_Witness ==
    /\ last.op = "put"
    /\ Len(segments) = MAX_SEGMENTS
    /\ Len(appended) > MAX_SEGMENTS

\* C2 (monotonic visibility): a segment recv returns to a reader has a sequence
\* number greater than that of the segment recv last returned to that reader.
C2_Monotonic ==
    (last.op = "recv" /\ last.res.kind = "segment") =>
        (last.prev = None \/ last.res.seg.sequence > last.prev)

\* A reader is given its second segment after the other reader was given one too.
C2_Witness ==
    /\ last.op = "recv"
    /\ last.res.kind = "segment"
    /\ last.prev # None
    /\ \A r \in Readers : lastRet[r] # None

\* The retained segment with sequence s, or None.
Lookup(win, s) ==
    IF \E i \in 1 .. Len(win) : win[i].sequence = s
    THEN ResSegment(Segment(s))
    ELSE ResNone

\* C3 (lookup correctness): get_segment(s), for a sequence number s >= 0,
\* returns the retained segment whose sequence is s, or None when no such
\* segment is retained; never the whole window.
C3_Lookup ==
    (last.op = "get_segment" /\ last.arg # None) =>
        last.res = Lookup(segments, last.arg)

\* C4 (recv suspends only when nothing is newer than the cursor): a reader
\* that has just suspended in recv, its cursor set, finds no retained segment
\* with a sequence greater than the cursor.
C4_SuspendOnlyIfNothingNewer ==
    (last.op = "recv_wait" /\ cursor # None) =>
        \A i \in 1 .. Len(segments) : segments[i].sequence <= cursor

C6_IdleTransition ==
    /\ (\E h \in DOMAIN alarms : alarms[h] = 0) => (ENABLED Fire /\ ~ENABLED Tick)
    /\ fires <= 1
    /\ idle => (fires = 1 /\ unsub = None /\ DOMAIN alarms = {})
    /\ last.op = "fire" => idle
    /\ (last.op = "put" /\ last.by = "idle") =>
           /\ ~idle
           /\ fires = 0
           /\ unsub # None
           /\ DOMAIN alarms = {unsub}
           /\ alarms[unsub] = Timeout

\* A put has just been applied to a timer that had fired and gone idle.
C6_Witness ==
    /\ last.op = "put"
    /\ last.by = "idle"
    /\ Len(appended) >= 2

\* C7 (teardown wakes readers with an empty result): a reader whose wait was
\* released by cleanup returns None from recv.
C7_CleanupReleasesWithNone ==
    (last.op = "recv" /\ last.by = "cleanup") => last.res.kind = "none"

\* C8 (teardown idempotence and totality): cleanup can run in every state; it
\* leaves the window empty, no alarm pending and no reader suspended; and
\* running it again changes nothing a caller can observe.
C8_CleanupIdempotent ==
    LET c == CleanupState(Observable) IN
    /\ ENABLED Cleanup
    /\ c.segments = <<>>
    /\ DOMAIN c.timer.alarms = {}
    /\ c.suspended = <<>>
    /\ CleanupState(c) = c
    /\ last.op = "cleanup" =>
           /\ Observable = c
           /\ segments = <<>>
           /\ DOMAIN alarms = {}
           /\ \A r \in Readers : pc[r] # "waiting"

\* cleanup has run twice in a row on an output that had segments and a timer.
C8_Witness ==
    /\ last.op = "cleanup"
    /\ last.by = "cleanup"
    /\ appended # <<>>
    /\ unsub # None

\* C9 (TORN_DOWN is terminal): once cleanup has run, the window stays empty and
\* no alarm is pending.
C9_TornDownTerminal ==
    torn => (segments = <<>> /\ DOMAIN alarms = {})

\* A wakeup for reader r, queued by a put, is on the loop's ready queue.
ReleasedByPut(r) ==
    \E i \in 1 .. Len(ready) :
        ready[i].kind = "wake" /\ ready[i].r = r /\ ready[i].by = "put"

\* C10 (broadcast release): a put leaves no reader suspended, and every reader
\* it released is eventually resumed and returns from recv: its wakeup does not
\* stay on the ready queue for ever, and leaves the queue only by recv returning.
C10_BroadcastRelease ==
    /\ [](last.op = "put" => \A r \in Readers : pc[r] # "waiting")
    /\ \A r \in Readers : []<>(~ReleasedByPut(r))
    /\ [][\A r \in Readers :
             (ReleasedByPut(r) /\ ~ReleasedByPut(r)') =>
                 (pc'[r] = "idle" /\ last'.op = "recv" /\ last'.r = r)]_vars

\* A put has just released two suspended readers at once.
C10_Witness ==
    /\ last.op = "put"
    /\ \A r \in Readers : ReleasedByPut(r)

\* The sequence numbers of the put handoffs on the ready queue, in queue order.
RECURSIVE QueuedSeqs(_)
QueuedSeqs(q) ==
    IF q = <<>> THEN <<>>
    ELSE IF Head(q).kind = "put" THEN <<Head(q).seq>> \o QueuedSeqs(Tail(q))
         ELSE QueuedSeqs(Tail(q))

\* C11 (serialized writes): the puts applied so far, followed by the handoffs
\* still queued, are exactly the puts handed over, each once and in handoff
\* order; and a put just applied has done all of its work: idle cleared, its
\* segment the newest in the window, the readers released, the event clear.
C11_SerializedWrites ==
    /\ appended \o QueuedSeqs(ready) = [i \in 1 .. nextSeq |-> i - 1]
    /\ last.op = "put" =>
           /\ ~idle
           /\ segments # <<>>
           /\ segments[Len(segments)].sequence = last.arg
           /\ appended[Len(appended)] = last.arg
           /\ waiters = <<>>
           /\ ~event

\* A put has just been applied while a later handoff waits behind it.
C11_Witness ==
    /\ last.op = "put"
    /\ QueuedPuts # {}
    /\ Len(appended) >= 2

\* The step is one of the operation named: every operation but the handoff
\* of put records itself in last, and only the handoff moves nextSeq.
Did(name) == last'.op = name /\ nextSeq' = nextSeq

\* The wait condition of recv: no cursor yet, or a cursor not beyond the
\* largest retained sequence number (0 for an empty window).
WaitCondition(win, cur) ==
    \/ cur = None
    \/ \E i \in 1 .. Len(win) : cur <= win[i].sequence
    \/ (win = <<>> /\ cur <= 0)

\* C12 as stated (wake signal does not persist): a recv whose wait condition
\* holds never returns without suspending, so nothing that completed before
\* the call, put or cleanup, releases it.
C12_NoStaleRelease ==
    [][(Did("recv") /\ last'.by = "nowait") => ~WaitCondition(segments, cursor)]_vars

\* C12 (amended): a recv whose wait condition holds returns without suspending
\* only when the event is still set from a cleanup, and then with nothing; the
\* event is set only by cleanup and every applied put leaves it clear, so an
\* earlier put never releases a call; a suspended reader is released only by
\* a put being applied or a cleanup running.
C12_ReleasedOnlyByLaterEvent ==
    [][/\ (Did("recv") /\ last'.by = "nowait" /\ WaitCondition(segments, cursor)) =>
              (event /\ torn /\ last'.res = ResNone)
       /\ \A r \in Readers :
              (pc[r] = "waiting" /\ pc'[r] # "waiting") => (Did("put") \/ Did("cleanup"))
       /\ (event' /\ ~event) => Did("cleanup")
       /\ Did("put") => ~event']_vars

\* After puts and a cleanup, a recv whose wait condition holds has returned
\* nothing without suspending.
C12_Witness ==
    /\ last.op = "recv"
    /\ last.by = "nowait"
    /\ last.res = ResNone
    /\ WaitCondition(segments, cursor)
    /\ event
    /\ appended # <<>>

\* C13 (ordered window): with puts handed over in increasing sequence order,
\* the window's sequence numbers increase strictly from oldest to newest, the
\* segments became visible in that same order, and the window is the tail of
\* what became visible.
C13_OrderedWindow ==
    /\ \A i, j \in 1 .. Len(segments) :
           i < j => segments[i].sequence < segments[j].sequence
    /\ \A i, j \in 1 .. Len(appended) : i < j => appended[i] < appended[j]
    /\ Len(segments) <= Len(appended)
    /\ Sequences(segments) = LastN(appended, Len(segments))

\* A window refilled after a cleanup, one handoff still queued behind the put
\* just applied.
C13_Witness ==
    /\ torn
    /\ last.op = "put"
    /\ Len(segments) >= 2
    /\ Len(appended) > Len(segments)

\* C14 (recv result): a recv that returns, resumed or without having waited,
\* returns nothing and leaves the cursor alone when the window is empty, and
\* otherwise returns the newest segment of the window as it is at that moment
\* and sets the cursor to that segment's sequence number.
C14_RecvResult ==
    [][Did("recv") =>
          IF segments = <<>>
          THEN last'.res = ResNone /\ cursor' = cursor
          ELSE /\ last'.res = ResSegment(segments[Len(segments)])
               /\ \A i \in 1 .. Len(segments) :
                      segments[i].sequence <= last'.res.seg.sequence
               /\ cursor' = last'.res.seg.sequence]_vars

\* A reader released by a put resumes on a window of several segments and is
\* given the newest; the cursor names it.
C14_Witness ==
    /\ last.op = "recv"
    /\ last.by = "put"
    /\ Len(segments) >= 2
    /\ last.res = ResSegment(segments[Len(segments)])
    /\ cursor = segments[Len(segments)].sequence

\* C15 (timer start semantics): start(), which every applied put calls,
\* clears idle; with no alarm pending (never started, fired, or cleared) it
\* leaves exactly one alarm pending, due a full timeout later; with an alarm
\* pending it leaves that alarm and its deadline as they are.
C15_StartSchedules ==
    [][Did("put") =>
          /\ ~idle'
          /\ IF DOMAIN alarms = {}
             THEN DOMAIN alarms' = {unsub'} /\ alarms'[unsub'] = Timeout
             ELSE alarms' = alarms]_vars

\* C16 (consumer activity resets idleness): after every get_segment call,
\* with or without a sequence number, found or not, and after every recv that
\* returns a segment, idle is false and exactly one alarm is pending, due a
\* full timeout later, any alarm pending before having been cancelled; and a
\* get_segment step changes neither the window nor the cursor.
C16_ConsumerResetsIdle ==
    [][(\/ Did("get_segment")
        \/ (Did("recv") /\ last'.res.kind = "segment")) =>
          /\ ~idle'
          /\ DOMAIN alarms' = {unsub'}
          /\ alarms'[unsub'] = Timeout
          /\ sinceArm' = 0
          /\ Did("get_segment") => (segments' = segments /\ cursor' = cursor)]_vars

\* A lookup that found nothing in a non-empty window has left the timer
\* active with one fresh alarm.
C16_Witness ==
    /\ last.op = "get_segment"
    /\ last.arg # None
    /\ last.res = ResNone
    /\ segments # <<>>
    /\ fires = 0
    /\ ~idle
    /\ DOMAIN alarms = {unsub}
    /\ alarms[unsub] = Timeout

\* C17 (idle timer is advisory): a step in which the timer fires changes the
\* idle flag and the armed state only; the window, the cursor, the event, the
\* suspended readers and the queued wakeups and handoffs are as before, so no
\* reader is released or cancelled by it.
C17_FireIsAdvisory ==
    [][Did("fire") =>
          /\ idle' /\ unsub' = None
          /\ segments' = segments
          /\ cursor' = cursor
          /\ event' = event
          /\ waiters' = waiters
          /\ pc' = pc
          /\ ready' = ready
          /\ lastRet' = lastRet]_vars

\* The timer has fired over a non-empty window with a reader suspended, and
\* the reader is still suspended.
C17_Witness ==
    /\ last.op = "fire"
    /\ idle
    /\ segments # <<>>
    /\ cursor # None
    /\ waiters # <<>>

\* C18 (target duration): target_duration is 1 for an empty window; for a
\* non-empty one it is an integer nearest to the largest retained duration
\* (durations in tenths), 1 where that integer is 0; it is always an integer
\* of at least 1, and segments no longer retained do not count.
C18_TargetDuration ==
    LET td == TargetDuration(segments)
        D == {segments[i].duration : i \in 1 .. Len(segments)}
    IN  /\ td \in Nat
        /\ td >= 1
        /\ segments = <<>> => td = 1
        /\ segments # <<>> =>
               \E m \in D :
                   /\ \A d \in D : d <= m
                   /\ m > 0
                   /\ \E n \in 0 .. (m \div 10 + 1) :
                          /\ 10 * n - m <= 5
                          /\ m - 10 * n <= 5
                          /\ td = IF n = 0 THEN 1 ELSE n

\* A window whose longest segment lasts 1.5 s, after a longer segment was
\* dropped by a cleanup: the target duration is 2.
C18_Witness ==
    /\ segments # <<>>
    /\ \A i \in 1 .. Len(segments) : segments[i].duration <= 15
    /\ \E i \in 1 .. Len(segments) : segments[i].duration = 15
    /\ \E i \in 1 .. Len(appended) : DurationOf(appended[i]) > 15
    /\ TargetDuration(segments) = 2

\* C19 (single pending alarm): at most one idle alarm is pending at any time,
\* and it is the one whose handle the timer holds; the callback is invoked at
\* most once between two armings, so never twice for one quiet period.
C19_SinglePendingAlarm ==
    /\ Cardinality(DOMAIN alarms) <= 1
    /\ DOMAIN alarms \subseteq {unsub}
    /\ fires <= 1
    /\ \A h \in DOMAIN alarms : alarms[h] \in 0 .. Timeout

\* A put has been applied while the alarm a reader's recv armed was running:
\* that alarm alone is pending.
C19_Witness ==
    /\ last.op = "put"
    /\ cursor # None
    /\ Len(appended) >= 2
    /\ DOMAIN alarms = {unsub}
    /\ alarms[unsub] < Timeout

\* C20 (stale wake signal): the event is set in a state only after a cleanup,
\* and then the window is empty; only cleanup sets it and every applied put
\* leaves it clear; so a recv that does not suspend because the event is set
\* returns nothing and leaves the cursor alone.
C20_StaleSignalMeansEmpty ==
    /\ [](event => (segments = <<>> /\ torn))
    /\ [][/\ event' => (event \/ Did("cleanup"))
          /\ Did("put") => (~event' /\ segments' # <<>>)
          /\ (Did("recv") /\ last'.by = "nowait" /\ event) =>
                 (last'.res = ResNone /\ cursor' = cursor /\ alarms' = alarms)]_vars

\* A reader that was given a segment earlier calls recv after a cleanup, with
\* the event still set, and is given nothing at once.
C20_Witness ==
    /\ event
    /\ last.op = "recv"
    /\ last.by = "nowait"
    /\ last.prev # None
    /\ last.res = ResNone
    /\ cursor = last.prev

====
